---- MODULE Spec2Model ----
(***************************************************************************)
(* Keyword-based sentiment analysis service (main.py, models.py).          *)
(*                                                                         *)
(* Text is a sequence of one-character strings, so that lower-casing and   *)
(* substring matching are computed the way str.lower() and the "in"        *)
(* operator compute them.  Scores and confidences are Python floats in     *)
(* the code; here they are exact decimals counted in ten-thousandths       *)
(* (0.4 is 4000, 0.95 is 9500), and a mean is the exact quotient of an     *)
(* integer total and a count.  Binary rounding error of the floats is not  *)
(* represented.                                                            *)
(***************************************************************************)
EXTENDS Integers, Sequences, FiniteSets, TLC

\* Longest statements list of a single request (specification SpecReq).
MaxStatements == 2
\* Longest statements list of a request in a request sequence (Spec).
MaxSeqStatements == 2
\* Longest result list handed to the insight generator (SpecGen).
MaxResults == 5

VARIABLES
    config,      \* sentiment_service.config, the process-wide AnalyzerConfig
    request,     \* the request being served (or NoRequest)
    response,    \* the answer to it (NoResponse while it is pending)
    calls,       \* result lists of the analyze_statements calls made for it
    history,     \* first result returned for each statement text so far
    sentiments,  \* argument of AdvancedInsightGenerator.generate (SpecGen)
    insights     \* its return value (NoInsight before the call)

vars == <<config, request, response, calls, history, sentiments, insights>>

----------------------------------------------------------------------------
(* models.py *)

POSITIVE == "positive"
NEGATIVE == "negative"
NEUTRAL  == "neutral"

SentimentType == <<POSITIVE, NEGATIVE, NEUTRAL>>

AnalyzerConfig ==
    [positive_keywords |-> <<
        <<"l","o","v","e">>,
        <<"a","m","a","z","i","n","g">>,
        <<"i","m","p","r","e","s","s","e","d">>,
        <<"q","u","a","l","i","t","y">>,
        <<"g","r","e","a","t">>,
        <<"e","x","c","e","l","l","e","n","t">>,
        <<"w","o","n","d","e","r","f","u","l">>,
        <<"o","u","t","s","t","a","n","d","i","n","g">>,
        <<"f","a","n","t","a","s","t","i","c">>,
        <<"a","w","e","s","o","m","e">>,
        <<"p","e","r","f","e","c","t">> >>,
     negative_keywords |-> <<
        <<"d","i","s","a","p","p","o","i","n","t","i","n","g">>,
        <<"n","o","t"," ","h","a","p","p","y">>,
        <<"h","o","p","e"," ","t","h","e","y"," ","i","m","p","r","o","v","e">>,
        <<"b","a","d">>,
        <<"t","e","r","r","i","b","l","e">>,
        <<"a","w","f","u","l">>,
        <<"w","o","r","s","t">>,
        <<"h","a","t","e">>,
        <<"h","o","r","r","i","b","l","e">>,
        <<"d","i","s","a","p","p","o","i","n","t","i","n","g">> >>,
     neutral_keywords |-> <<
        <<"n","e","u","t","r","a","l">>,
        <<"m","i","x","e","d"," ","f","e","e","l","i","n","g","s">>,
        <<"o","k","a","y">>,
        <<"a","v","e","r","a","g","e">>,
        <<"u","n","c","e","r","t","a","i","n">>,
        <<"u","n","s","u","r","e">> >>,
     confidence_threshold |-> 7000,
     minimum_score |-> 1000,
     maximum_score |-> 9000]

----------------------------------------------------------------------------
(* Text primitives: str.lower() and the substring test "word in text". *)

UpperToLower ==
    "A" :> "a" @@ "B" :> "b" @@ "C" :> "c" @@ "D" :> "d" @@ "E" :> "e" @@
    "F" :> "f" @@ "G" :> "g" @@ "H" :> "h" @@ "I" :> "i" @@ "J" :> "j" @@
    "K" :> "k" @@ "L" :> "l" @@ "M" :> "m" @@ "N" :> "n" @@ "O" :> "o" @@
    "P" :> "p" @@ "Q" :> "q" @@ "R" :> "r" @@ "S" :> "s" @@ "T" :> "t" @@
    "U" :> "u" @@ "V" :> "v" @@ "W" :> "w" @@ "X" :> "x" @@ "Y" :> "y" @@
    "Z" :> "z"

lower(text) ==
    [i \in 1..Len(text) |->
        IF text[i] \in DOMAIN UpperToLower THEN UpperToLower[text[i]]
        ELSE text[i]]

\* word in text
Contains(word, text) ==
    \E i \in 0..(Len(text) - Len(word)) :
        SubSeq(text, i + 1, i + Len(word)) = word

\* [word for word in keywords if word in text]
Matches(keywords, text) ==
    SelectSeq(keywords, LAMBDA word : Contains(word, text))

Min(a, b) == IF a < b THEN a ELSE b
Max(a, b) == IF a > b THEN a ELSE b

----------------------------------------------------------------------------
(* KeywordBasedSentimentAnalyzer *)

\* Values random.uniform(0.4, 0.6) is sampled at: both ends of the range
\* and one value just under its middle.
NeutralScores == {4000, 4999, 6000}

\* Variant of analyze whose first comparison is not strict (a tie between
\* the positive and the negative count is labelled POSITIVE).
analyze_ge(statement, cfg, rnd) ==
    LET statement_lower  == lower(statement)
        positive_matches == Matches(cfg.positive_keywords, statement_lower)
        negative_matches == Matches(cfg.negative_keywords, statement_lower)
        neutral_matches  == Matches(cfg.neutral_keywords, statement_lower)
        positive_count   == Len(positive_matches)
        negative_count   == Len(negative_matches)
        neutral_count    == Len(neutral_matches)
    IN  IF positive_count >= negative_count /\ positive_count > neutral_count
        THEN [sentiment      |-> POSITIVE,
              score          |-> Min(cfg.maximum_score,
                                     6000 + positive_count * 1000),
              confidence     |-> Min(9500, 5000 + positive_count * 1500),
              keywords_found |-> positive_matches]
        ELSE IF negative_count > positive_count
                /\ negative_count > neutral_count
        THEN [sentiment      |-> NEGATIVE,
              score          |-> Max(cfg.minimum_score,
                                     4000 - negative_count * 1000),
              confidence     |-> Min(9500, 5000 + negative_count * 1500),
              keywords_found |-> negative_matches]
        ELSE [sentiment      |-> NEUTRAL,
              score          |-> rnd,
              confidence     |-> 5000 + neutral_count * 1000,
              keywords_found |-> neutral_matches]

\* analyze(statement) under configuration cfg; rnd is the value that
\* random.uniform returns if the neutral branch is taken.
analyze(statement, cfg, rnd) ==
    LET statement_lower  == lower(statement)
        positive_matches == Matches(cfg.positive_keywords, statement_lower)
        negative_matches == Matches(cfg.negative_keywords, statement_lower)
        neutral_matches  == Matches(cfg.neutral_keywords, statement_lower)
        positive_count   == Len(positive_matches)
        negative_count   == Len(negative_matches)
        neutral_count    == Len(neutral_matches)
    IN  IF positive_count > negative_count /\ positive_count > neutral_count
        THEN [sentiment      |-> POSITIVE,
              score          |-> Min(cfg.maximum_score,
                                     6000 + positive_count * 1000),
              confidence     |-> Min(9500, 5000 + positive_count * 1500),
              keywords_found |-> positive_matches]
        ELSE IF negative_count > positive_count
                /\ negative_count > neutral_count
        THEN [sentiment      |-> NEGATIVE,
              score          |-> Max(cfg.minimum_score,
                                     4000 - negative_count * 1000),
              confidence     |-> Min(9500, 5000 + negative_count * 1500),
              keywords_found |-> negative_matches]
        ELSE [sentiment      |-> NEUTRAL,
              score          |-> rnd,
              confidence     |-> 5000 + neutral_count * 1000,
              keywords_found |-> neutral_matches]

RECURSIVE Concat(_, _)
Concat(statements, n) ==
    IF n = 0 THEN <<>> ELSE Concat(statements, n - 1) \o statements[n]

\* Variant of analyze_statements that carries text over from one statement
\* to the next: the i-th analysis sees the first i statements joined.
analyze_statements_carry(statements, cfg, rnds) ==
    [i \in 1..Len(statements) |->
        LET analysis == analyze(Concat(statements, i), cfg, rnds[i])
        IN  [statement      |-> statements[i],
             sentiment      |-> analysis.sentiment,
             score          |-> analysis.score,
             confidence     |-> analysis.confidence,
             keywords_found |-> analysis.keywords_found]]

\* SentimentAnalysisService.analyze_statements: one SentimentResult per
\* statement, in order; rnds[i] is the random draw of the i-th analyze call.
analyze_statements(statements, cfg, rnds) ==
    [i \in 1..Len(statements) |->
        LET analysis == analyze(statements[i], cfg, rnds[i])
        IN  [statement      |-> statements[i],
             sentiment      |-> analysis.sentiment,
             score          |-> analysis.score,
             confidence     |-> analysis.confidence,
             keywords_found |-> analysis.keywords_found]]

----------------------------------------------------------------------------
(* AdvancedInsightGenerator *)

\* a / b rounded to the nearest integer, ties to the even one: round(x, 3)
\* and the ".1%" format both round a quotient this way.
RoundDiv(a, b) ==
    LET fl  == a \div b
        rem == a % b
    IN  IF 2 * rem < b THEN fl
        ELSE IF 2 * rem > b THEN fl + 1
        ELSE IF fl % 2 = 0 THEN fl ELSE fl + 1

\* round(average_score, 3), in thousandths
Round3(total_score, count) == RoundDiv(total_score, 10 * count)

\* f"{num/den:.1%}", in tenths of a percent
Percent1(num, den) == RoundDiv(1000 * num, den)

RECURSIVE SumScores(_)
SumScores(results) ==
    IF results = <<>> THEN 0
    ELSE results[1].score + SumScores(Tail(results))

\* Variant of CountLabel that counts equal results once.
CountLabel_distinct(results, label) ==
    Cardinality({r \in {results[i] : i \in DOMAIN results} :
                    r.sentiment = label})

CountLabel(results, label) ==
    Cardinality({i \in DOMAIN results : results[i].sentiment = label})

HighConfidenceCount(results) ==
    Cardinality({i \in DOMAIN results : results[i].confidence > 7000})

\* A recommendation string: its fixed text and the numbers formatted into
\* it (none for the recommendations of _generate_recommendations).
Rec(text) == [text |-> text, numbers |-> <<>>]

\* Variant of _generate_recommendations in which the three count-based
\* conditions form one if / elif chain.
generate_recommendations_elif(pos, neg, neu, total, avg_num, avg_den, conf_num, conf_den) ==
    (IF neg > pos
     THEN <<Rec("Address negative feedback urgently to prevent reputation damage"),
            Rec("Implement customer satisfaction improvement initiatives")>>
     ELSE IF 10 * pos > total * 6
     THEN <<Rec("Leverage positive sentiment for marketing campaigns"),
            Rec("Identify and amplify positive influencer voices")>>
     ELSE IF 10 * neu > total * 4
     THEN <<Rec("Engage neutral influencers with targeted content"),
            Rec("Provide more compelling value propositions")>>
     ELSE <<>>)
    \o
    (IF avg_num < 4000 * avg_den
     THEN <<Rec("Critical: Overall sentiment is very low - immediate action required")>>
     ELSE IF avg_num > 7000 * avg_den
     THEN <<Rec("Excellent: Maintain current strategies and expand successful initiatives")>>
     ELSE <<>>)
    \o
    (IF 2 * conf_num < conf_den
     THEN <<Rec("Consider gathering more data for better analysis confidence")>>
     ELSE <<>>)

\* _generate_recommendations; avg_score is the unrounded mean
\* avg_num / avg_den and confidence the ratio conf_num / conf_den.
generate_recommendations(pos, neg, neu, total, avg_num, avg_den, conf_num, conf_den) ==
    (IF neg > pos
     THEN <<Rec("Address negative feedback urgently to prevent reputation damage"),
            Rec("Implement customer satisfaction improvement initiatives")>>
     ELSE <<>>)
    \o
    (IF 10 * pos > total * 6
     THEN <<Rec("Leverage positive sentiment for marketing campaigns"),
            Rec("Identify and amplify positive influencer voices")>>
     ELSE <<>>)
    \o
    (IF 10 * neu > total * 4
     THEN <<Rec("Engage neutral influencers with targeted content"),
            Rec("Provide more compelling value propositions")>>
     ELSE <<>>)
    \o
    (IF avg_num < 4000 * avg_den
     THEN <<Rec("Critical: Overall sentiment is very low - immediate action required")>>
     ELSE IF avg_num > 7000 * avg_den
     THEN <<Rec("Excellent: Maintain current strategies and expand successful initiatives")>>
     ELSE <<>>)
    \o
    (IF 2 * conf_num < conf_den
     THEN <<Rec("Consider gathering more data for better analysis confidence")>>
     ELSE <<>>)

\* Variant of the summary selection whose first comparison is not strict.
SummaryText_ge(pos, neg, neu, total, high_confidence_count) ==
    LET chosen ==
            IF pos >= neg /\ pos > neu
            THEN [sentence |-> "Overwhelmingly positive sentiment detected",
                  embedded |-> <<pos, total, Percent1(pos, total)>>]
            ELSE IF neg > pos /\ neg > neu
            THEN [sentence |-> "Concerning negative sentiment trend",
                  embedded |-> <<neg, total, Percent1(neg, total)>>]
            ELSE IF neu > pos /\ neu > neg
            THEN [sentence |-> "Neutral sentiment dominates",
                  embedded |-> <<neu, total, Percent1(neu, total)>>]
            ELSE [sentence |-> "Mixed sentiments observed",
                  embedded |-> <<>>]
    IN  [sentence   |-> chosen.sentence,
         embedded   |-> chosen.embedded,
         confidence |-> <<Percent1(high_confidence_count, total)>>]

\* The summary sentence: which of the four sentences it is, the numbers
\* embedded in it (count, total, percentage in tenths of a percent), and
\* the percentage of the appended confidence clause.
SummaryText(pos, neg, neu, total, high_confidence_count) ==
    LET chosen ==
            IF pos > neg /\ pos > neu
            THEN [sentence |-> "Overwhelmingly positive sentiment detected",
                  embedded |-> <<pos, total, Percent1(pos, total)>>]
            ELSE IF neg > pos /\ neg > neu
            THEN [sentence |-> "Concerning negative sentiment trend",
                  embedded |-> <<neg, total, Percent1(neg, total)>>]
            ELSE IF neu > pos /\ neu > neg
            THEN [sentence |-> "Neutral sentiment dominates",
                  embedded |-> <<neu, total, Percent1(neu, total)>>]
            ELSE [sentence |-> "Mixed sentiments observed",
                  embedded |-> <<>>]
    IN  [sentence   |-> chosen.sentence,
         embedded   |-> chosen.embedded,
         confidence |-> <<Percent1(high_confidence_count, total)>>]

\* Variant of generate that hands the rounded average_score, not the
\* unrounded mean, to _generate_recommendations.
generate_rounded(results) ==
    IF results = <<>>
    THEN [summary                |-> [sentence   |-> "No statements to analyze.",
                                      embedded   |-> <<>>,
                                      confidence |-> <<>>],
          sentiment_distribution |-> <<>>,
          average_score          |-> 0,
          total_statements       |-> 0,
          recommendations        |-> <<>>]
    ELSE
        LET distribution ==
                [label \in {SentimentType[k] : k \in DOMAIN SentimentType} |->
                    CountLabel(results, label)]
            total_score           == SumScores(results)
            high_confidence_count == HighConfidenceCount(results)
            total == Len(results)
            pos   == distribution[POSITIVE]
            neg   == distribution[NEGATIVE]
            neu   == distribution[NEUTRAL]
        IN  [summary                |-> SummaryText(pos, neg, neu, total,
                                                    high_confidence_count),
             sentiment_distribution |-> distribution,
             average_score          |-> Round3(total_score, total),
             total_statements       |-> total,
             recommendations        |->
                 generate_recommendations(pos, neg, neu, total,
                                          10 * Round3(total_score, total), 1,
                                          high_confidence_count, total)]

\* AdvancedInsightGenerator.generate
generate(results) ==
    IF results = <<>>
    THEN [summary                |-> [sentence   |-> "No statements to analyze.",
                                      embedded   |-> <<>>,
                                      confidence |-> <<>>],
          sentiment_distribution |-> <<>>,
          average_score          |-> 0,
          total_statements       |-> 0,
          recommendations        |-> <<>>]
    ELSE
        LET distribution ==
                [label \in {SentimentType[k] : k \in DOMAIN SentimentType} |->
                    CountLabel(results, label)]
            total_score           == SumScores(results)
            high_confidence_count == HighConfidenceCount(results)
            total == Len(results)
            pos   == distribution[POSITIVE]
            neg   == distribution[NEGATIVE]
            neu   == distribution[NEUTRAL]
        IN  [summary                |-> SummaryText(pos, neg, neu, total,
                                                    high_confidence_count),
             sentiment_distribution |-> distribution,
             average_score          |-> Round3(total_score, total),
             total_statements       |-> total,
             recommendations        |->
                 generate_recommendations(pos, neg, neu, total,
                                          total_score, total,
                                          high_confidence_count, total)]

\* SentimentAnalysisService.generate_insights, given the result list its
\* analyze_statements call produced.
generate_insights(results) == generate(results)

----------------------------------------------------------------------------
(* Requests *)

StmtEmpty         == <<>>
StmtLove          == <<"I"," ","L","O","V","E"," ","i","t">>
StmtGreatQuality  == <<"G","r","e","a","t"," ","q","u","a","l","i","t","y">>
StmtDisappointing == <<"D","i","s","a","p","p","o","i","n","t","i","n","g">>
StmtBad           == <<"T","o","o"," ","b","a","d">>
StmtLoveBad       == <<"l","o","v","e",","," ","b","a","d">>
StmtAllNeutral    ==
    <<"n","e","u","t","r","a","l"," ","m","i","x","e","d"," ",
      "f","e","e","l","i","n","g","s"," ","o","k","a","y"," ",
      "a","v","e","r","a","g","e"," ","u","n","c","e","r","t","a","i","n"," ",
      "u","n","s","u","r","e">>

\* Statements a single request is drawn from.
Pool == {StmtEmpty, StmtLove, StmtGreatQuality, StmtDisappointing, StmtBad,
         StmtLoveBad, StmtAllNeutral}
\* Statements the requests of a request sequence are drawn from.
SeqPool == {StmtEmpty, StmtLove, StmtBad}
\* Statements whose analysis results are handed to the insight generator.
GenPool == {StmtEmpty, StmtLove, StmtGreatQuality, StmtDisappointing, StmtBad}

Lists(S, n) == UNION {[1..k -> S] : k \in 0..n}

\* include_metadata: Optional[bool] = False
MetadataValues == {"true", "false", "null"}
\* Variant of the include_metadata test that only asks whether the field
\* is set ("is not None").
Truthy_not_none(flag) == flag # "null"

\* if request.include_metadata:
Truthy(flag) == flag = "true"

\* StatementRequest / BulkStatementRequest bodies posted to the three
\* analysis endpoints, and the four GET requests.
PostRequests(S, n) ==
    {[endpoint |-> e, statements |-> l, include_metadata |-> "false"] :
        e \in {"POST /sentiment", "POST /insight"}, l \in Lists(S, n)}
    \cup
    {[endpoint |-> "POST /bulk-analysis", statements |-> l,
      include_metadata |-> m] : l \in Lists(S, n), m \in MetadataValues}

GetRequests ==
    {[endpoint |-> e, statements |-> <<>>, include_metadata |-> "false"] :
        e \in {"GET /config", "GET /health", "GET /dummy-statements",
               "GET /influencer-data"}}

NoRequest  == [endpoint |-> "", statements |-> <<>>,
               include_metadata |-> "false"]
NoResponse == [status |-> 0, body |-> <<>>]

Pending(endpoint) == request.endpoint = endpoint /\ response.status = 0

----------------------------------------------------------------------------
(* Random draws and the record of returned results *)

\* The analyze call for this statement takes the branch that calls
\* random.uniform.
UsesRandom(statement, cfg) == analyze(statement, cfg, 0).sentiment = NEUTRAL

\* The vectors of values random.uniform may return during one
\* analyze_statements call (0 where it is not called).
RandomDraws(statements, cfg) ==
    LET needs == {i \in 1..Len(statements) : UsesRandom(statements[i], cfg)}
    IN  {[i \in 1..Len(statements) |-> IF i \in needs THEN d[i] ELSE 0] :
            d \in [needs -> NeutralScores]}

\* History of the analysis results: for every statement text, the first
\* result ever produced for it.
Remember(seen, results) ==
    seen \cup
    {results[i] : i \in {j \in 1..Len(results) :
        /\ \A k \in 1..(j - 1) : results[k].statement # results[j].statement
        /\ \A h \in seen : h.statement # results[j].statement}}

----------------------------------------------------------------------------
(* API endpoints *)

\* raise HTTPException(status_code=400, detail="No statements provided")
Reject ==
    /\ response' = [status |-> 400,
                    body |-> [detail |-> "No statements provided"]]
    /\ UNCHANGED <<calls, history>>

\* Variant of POST /sentiment without the empty-list check.
sentiment_analysis_unchecked ==
    /\ Pending("POST /sentiment")
    /\ \E rnds \in RandomDraws(request.statements, config) :
          LET results == analyze_statements(request.statements, config, rnds)
          IN  /\ response' = [status |-> 200, body |-> results]
              /\ calls' = <<results>>
              /\ history' = Remember(history, results)
    /\ UNCHANGED <<config, request, sentiments, insights>>

\* POST /sentiment
sentiment_analysis ==
    /\ Pending("POST /sentiment")
    /\ IF request.statements = <<>>
       THEN Reject
       ELSE \E rnds \in RandomDraws(request.statements, config) :
              LET results == analyze_statements(request.statements,
                                                config, rnds)
              IN  /\ response' = [status |-> 200, body |-> results]
                  /\ calls' = <<results>>
                  /\ history' = Remember(history, results)
    /\ UNCHANGED <<config, request, sentiments, insights>>

\* POST /insight
insight_summary ==
    /\ Pending("POST /insight")
    /\ IF request.statements = <<>>
       THEN Reject
       ELSE \E rnds \in RandomDraws(request.statements, config) :
              LET results == analyze_statements(request.statements,
                                                config, rnds)
              IN  /\ response' = [status |-> 200,
                                  body |-> generate_insights(results)]
                  /\ calls' = <<results>>
                  /\ history' = Remember(history, results)
    /\ UNCHANGED <<config, request, sentiments, insights>>

\* POST /bulk-analysis
bulk_analysis ==
    /\ Pending("POST /bulk-analysis")
    /\ IF request.statements = <<>>
       THEN Reject
       ELSE \E rnds \in RandomDraws(request.statements, config) :
              LET results == analyze_statements(request.statements,
                                                config, rnds)
                  summary == generate_insights(results)
              IN  IF Truthy(request.include_metadata)
                  THEN \E rnds2 \in RandomDraws(request.statements, config) :
                         LET second == analyze_statements(request.statements,
                                                          config, rnds2)
                             high_conf_count ==
                                 Cardinality({i \in DOMAIN second :
                                     second[i].confidence > 7000})
                             metadata ==
                                 [text    |-> "Processing metadata: high-confidence results",
                                  numbers |-> <<high_conf_count, Len(second)>>]
                         IN  /\ response' =
                                    [status |-> 200,
                                     body |-> [summary EXCEPT
                                         !.recommendations =
                                             Append(@, metadata)]]
                             /\ calls' = <<results, second>>
                             /\ history' =
                                    Remember(Remember(history, results),
                                             second)
                  ELSE /\ response' = [status |-> 200, body |-> summary]
                       /\ calls' = <<results>>
                       /\ history' = Remember(history, results)
    /\ UNCHANGED <<config, request, sentiments, insights>>

\* GET /dummy-statements: the statements of the data file, or the fallback
\* list when the file is missing or unreadable.
get_dummy_statements ==
    /\ Pending("GET /dummy-statements")
    /\ \E source \in {"data/dummy_statements.json", "fallback"} :
          response' = [status |-> 200, body |-> [source |-> source]]
    /\ UNCHANGED <<config, request, calls, history, sentiments, insights>>

\* GET /influencer-data: the data file, or 500 when it cannot be loaded.
get_influencer_data ==
    /\ Pending("GET /influencer-data")
    /\ \E status \in {200, 500} :
          response' = [status |-> status,
                       body |-> [source |-> "data/dummy_statements.json"]]
    /\ UNCHANGED <<config, request, calls, history, sentiments, insights>>

\* GET /health
health_check ==
    /\ Pending("GET /health")
    /\ response' = [status |-> 200,
                    body |-> [status  |-> "healthy",
                              service |-> "sentiment-analysis-api"]]
    /\ UNCHANGED <<config, request, calls, history, sentiments, insights>>

\* GET /config
get_config ==
    /\ Pending("GET /config")
    /\ response' =
          [status |-> 200,
           body |-> [positive_keywords    |-> config.positive_keywords,
                     negative_keywords    |-> config.negative_keywords,
                     neutral_keywords     |-> config.neutral_keywords,
                     confidence_threshold |-> config.confidence_threshold]]
    /\ UNCHANGED <<config, request, calls, history, sentiments, insights>>

\* The next request arrives once the previous one has been answered.
Receive ==
    /\ request = NoRequest \/ response.status # 0
    /\ request' \in PostRequests(SeqPool, MaxSeqStatements) \cup GetRequests
    /\ response' = NoResponse
    /\ calls' = <<>>
    /\ UNCHANGED <<config, history, sentiments, insights>>

\* AdvancedInsightGenerator.generate applied to the drawn result list.
Generate ==
    /\ insights = <<>>
    /\ insights' = <<generate(sentiments)>>
    /\ UNCHANGED <<config, request, response, calls, history, sentiments>>

----------------------------------------------------------------------------
(* Specifications *)

\* Results analyze_statements produces for the statements of GenPool.
ResultPool ==
    UNION {{analyze_statements(<<s>>, AnalyzerConfig, <<rnd>>)[1] :
                rnd \in NeutralScores} : s \in GenPool}

\* SentimentAnalysisService.__init__ and module start-up
InitService ==
    /\ config = AnalyzerConfig
    /\ response = NoResponse
    /\ calls = <<>>
    /\ history = {}
    /\ insights = <<>>

\* The service answering a sequence of requests.
Init ==
    /\ InitService
    /\ request = NoRequest
    /\ sentiments = <<>>

Next ==
    \/ Receive
    \/ sentiment_analysis
    \/ insight_summary
    \/ bulk_analysis
    \/ get_dummy_statements
    \/ get_influencer_data
    \/ health_check
    \/ get_config

Spec == Init /\ [][Next]_vars

\* The service answering one request, drawn from a larger set.
InitReq ==
    /\ InitService
    /\ request \in PostRequests(Pool, MaxStatements) \cup GetRequests
    /\ sentiments = <<>>

NextReq ==
    \/ sentiment_analysis
    \/ insight_summary
    \/ bulk_analysis
    \/ get_dummy_statements
    \/ get_influencer_data
    \/ health_check
    \/ get_config

SpecReq == InitReq /\ [][NextReq]_vars

\* The insight generator applied to one result list.
InitGen ==
    /\ InitService
    /\ request = NoRequest
    /\ sentiments \in Lists(ResultPool, MaxResults)

NextGen == Generate

SpecGen == InitGen /\ [][NextGen]_vars

----------------------------------------------------------------------------
(* Properties *)

Range(f) == {f[i] : i \in DOMAIN f}

\* Every SentimentResult produced while serving the current request.
Produced == UNION {Range(calls[k]) : k \in DOMAIN calls}

\* A POST request to one of the three analysis endpoints has been answered.
Answered(endpoint) == request.endpoint = endpoint /\ response.status # 0

AnalysisEndpoints == {"POST /sentiment", "POST /insight", "POST /bulk-analysis"}

\* Number of results of the generator's input that carry a label.
LabelCount(label) ==
    Cardinality({i \in DOMAIN sentiments : sentiments[i].sentiment = label})

RECURSIVE SumValues(_)
SumValues(f) ==
    IF DOMAIN f = {} THEN 0
    ELSE LET k == CHOOSE x \in DOMAIN f : TRUE
         IN  f[k] + SumValues([x \in DOMAIN f \ {k} |-> f[x]])

\* C1: the values of sentiment_distribution sum to total_statements, and
\* total_statements is the number of results passed to generate; this
\* includes the empty result list.
C1_DistributionSumsToTotal ==
    insights # <<>> =>
        /\ SumValues(insights[1].sentiment_distribution)
               = insights[1].total_statements
        /\ insights[1].total_statements = Len(sentiments)

\* C1 witness: generate has returned for a list of MaxResults results in
\* which all three labels occur.
C1_Witness ==
    /\ insights # <<>>
    /\ Len(sentiments) = MaxResults
    /\ \A label \in {POSITIVE, NEGATIVE, NEUTRAL} :
           insights[1].sentiment_distribution[label] > 0

\* C2: with p, n, u the lengths of the three match lists of the
\* lower-cased statement, the label is POSITIVE exactly when p > n and
\* p > u, NEGATIVE exactly when n > p and n > u, and NEUTRAL otherwise
\* (every tie and p = n = u = 0); keywords_found is the match list of the
\* chosen label's keyword list.
C2_Classification ==
    \A r \in Produced :
        LET text == lower(r.statement)
            pm == Matches(config.positive_keywords, text)
            nm == Matches(config.negative_keywords, text)
            um == Matches(config.neutral_keywords, text)
            p  == Len(pm)
            n  == Len(nm)
            u  == Len(um)
        IN  /\ (r.sentiment = POSITIVE) <=> (p > n /\ p > u)
            /\ (r.sentiment = NEGATIVE) <=> (n > p /\ n > u)
            /\ (r.sentiment = NEUTRAL)
                   <=> ~(p > n /\ p > u) /\ ~(n > p /\ n > u)
            /\ r.sentiment = POSITIVE => r.keywords_found = pm
            /\ r.sentiment = NEGATIVE => r.keywords_found = nm
            /\ r.sentiment = NEUTRAL  => r.keywords_found = um

\* C2 witness: one request produced a POSITIVE result for a statement in
\* upper case and a NEUTRAL result for a statement with p = n = 1 > u = 0.
C2_Witness ==
    /\ \E r \in Produced : r.statement = StmtLove /\ r.sentiment = POSITIVE
    /\ \E r \in Produced :
           /\ r.statement = StmtLoveBad
           /\ r.sentiment = NEUTRAL
           /\ r.keywords_found = <<>>

\* C3 (as claimed): the confidence of every result analyze returns under
\* the default configuration lies in [0, 1].
C3_ConfidenceInUnitInterval ==
    \A r \in Produced : r.confidence >= 0 /\ r.confidence <= 10000

\* C4: the three analysis endpoints answer 400 exactly when the statements
\* list is empty; then no statement is analyzed and no result is produced.
C4_EmptyListRejected ==
    \A e \in AnalysisEndpoints :
        Answered(e) =>
            /\ (response.status = 400) <=> (request.statements = <<>>)
            /\ response.status = 400 =>
                   /\ calls = <<>>
                   /\ history = {}
                   /\ DOMAIN response.body = {"detail"}

\* C4 witness: POST /bulk-analysis with an empty list was answered 400.
C4_Witness ==
    /\ Answered("POST /bulk-analysis")
    /\ request.statements = <<>>
    /\ response.status = 400

\* C5: POST /bulk-analysis with a non-empty list: with include_metadata
\* true the recommendations are those generate gives for the analysis the
\* summary was computed from, followed by exactly one entry reporting k/n,
\* n the number of submitted statements and k the number of results of
\* that analysis with confidence > 0.7 (the entry itself is computed from
\* a second analysis pass); otherwise nothing is appended.
C5_MetadataEntry ==
    (Answered("POST /bulk-analysis") /\ request.statements # <<>>) =>
        LET base == generate(calls[1]).recommendations
            n    == Len(request.statements)
            k    == Cardinality({i \in DOMAIN calls[1] :
                                    calls[1][i].confidence > 7000})
        IN  /\ response.body.summary.confidence = <<Percent1(k, n)>>
            /\ IF request.include_metadata = "true"
               THEN /\ Len(calls) = 2
                    /\ response.body.recommendations =
                           Append(base,
                                  [text    |-> "Processing metadata: high-confidence results",
                                   numbers |-> <<k, n>>])
               ELSE /\ Len(calls) = 1
                    /\ response.body.recommendations = base

\* C5 witness: a metadata request whose two analysis passes drew different
\* neutral scores, with some but not all results of high confidence.
C5_Witness ==
    /\ Answered("POST /bulk-analysis")
    /\ request.include_metadata = "true"
    /\ Len(calls) = 2
    /\ calls[1] # calls[2]
    /\ LET last == response.body.recommendations[
                       Len(response.body.recommendations)]
       IN  /\ last.numbers # <<>>
           /\ last.numbers[1] > 0
           /\ last.numbers[1] < last.numbers[2]
           /\ Len(response.body.recommendations) > 1

\* C6: for a non-empty result list exactly one summary sentence is chosen:
\* the positive one (embedding pos/total) iff pos is strictly greatest, the
\* negative one (neg/total) iff neg is strictly greatest, the neutral one
\* (neu/total) iff neu is strictly greatest, and the mixed one, without
\* counts, iff no count is strictly greater than both others.
C6_SummarySentence ==
    (insights # <<>> /\ sentiments # <<>>) =>
        LET pos   == LabelCount(POSITIVE)
            neg   == LabelCount(NEGATIVE)
            neu   == LabelCount(NEUTRAL)
            total == Len(sentiments)
            text  == insights[1].summary
        IN  /\ (pos > neg /\ pos > neu) <=>
                  /\ text.sentence = "Overwhelmingly positive sentiment detected"
                  /\ SubSeq(text.embedded, 1, 2) = <<pos, total>>
                  /\ Len(text.embedded) = 3
            /\ (neg > pos /\ neg > neu) <=>
                  /\ text.sentence = "Concerning negative sentiment trend"
                  /\ SubSeq(text.embedded, 1, 2) = <<neg, total>>
                  /\ Len(text.embedded) = 3
            /\ (neu > pos /\ neu > neg) <=>
                  /\ text.sentence = "Neutral sentiment dominates"
                  /\ SubSeq(text.embedded, 1, 2) = <<neu, total>>
                  /\ Len(text.embedded) = 3
            /\ (~(pos > neg /\ pos > neu) /\ ~(neg > pos /\ neg > neu)
                    /\ ~(neu > pos /\ neu > neg)) <=>
                  /\ text.sentence = "Mixed sentiments observed"
                  /\ text.embedded = <<>>

\* C6 witness: 3 positive, 2 negative and no neutral results give the
\* positive sentence with 3/5 and 60.0%.
C6_Witness ==
    /\ insights # <<>>
    /\ LabelCount(POSITIVE) = 3
    /\ LabelCount(NEGATIVE) = 2
    /\ LabelCount(NEUTRAL) = 0
    /\ insights[1].summary.sentence
           = "Overwhelmingly positive sentiment detected"
    /\ insights[1].summary.embedded = <<3, 5, 600>>

\* C7 (as claimed): the length of the match list reported for a result is
\* the number of distinct configured keywords of its label that occur in
\* the lower-cased statement, and keywords_found lists no keyword twice.
C7_DistinctKeywordCount ==
    \A r \in Produced :
        LET keywords == IF r.sentiment = POSITIVE
                        THEN config.positive_keywords
                        ELSE IF r.sentiment = NEGATIVE
                        THEN config.negative_keywords
                        ELSE config.neutral_keywords
            found    == r.keywords_found
        IN  /\ Len(found) =
                   Cardinality({w \in Range(keywords) :
                                   Contains(w, lower(r.statement))})
            /\ \A i, j \in DOMAIN found : found[i] = found[j] => i = j

Critical ==
    Rec("Critical: Overall sentiment is very low - immediate action required")
Maintain ==
    Rec("Excellent: Maintain current strategies and expand successful initiatives")

\* C8 (as claimed): for a non-empty input the critical-action entry is
\* present exactly when the returned, rounded average_score is < 0.4, the
\* maintain-strategy entry exactly when it is > 0.7, and never both.
C8_ThresholdsOnReturnedAverage ==
    (insights # <<>> /\ sentiments # <<>>) =>
        LET recs == Range(insights[1].recommendations)
        IN  /\ (Critical \in recs) <=> (insights[1].average_score < 400)
            /\ (Maintain \in recs) <=> (insights[1].average_score > 700)
            /\ ~(Critical \in recs /\ Maintain \in recs)

RECURSIVE ScoreTotal(_)
ScoreTotal(n) == IF n = 0 THEN 0 ELSE sentiments[n].score + ScoreTotal(n - 1)

\* C8 (amended): the critical-action entry is present exactly when the
\* mean of the scores before rounding is < 0.4, the maintain-strategy
\* entry exactly when that unrounded mean is > 0.7, and never both.
C8_ThresholdsOnUnroundedMean ==
    (insights # <<>> /\ sentiments # <<>>) =>
        LET recs  == Range(insights[1].recommendations)
            total == ScoreTotal(Len(sentiments))
            count == Len(sentiments)
        IN  /\ (Critical \in recs) <=> (total < 4000 * count)
            /\ (Maintain \in recs) <=> (total > 7000 * count)
            /\ ~(Critical \in recs /\ Maintain \in recs)

\* C8 witness: the critical-action entry is present although the returned
\* average_score is 0.4, the unrounded mean being just below it.
C8_Witness ==
    /\ insights # <<>>
    /\ sentiments # <<>>
    /\ Critical \in Range(insights[1].recommendations)
    /\ insights[1].average_score = 400
    /\ ScoreTotal(Len(sentiments)) < 4000 * Len(sentiments)

\* C9: for a non-empty result list the recommendations are, in this order:
\* the two remediation entries iff neg > pos, the two amplification
\* entries iff pos > 0.6 * total, the two engagement entries iff
\* neu > 0.4 * total, at most one average-score entry, and the
\* data-sufficiency entry iff fewer than half of the results have
\* confidence > 0.7; each group is present independently of the others.
C9_RecommendationOrder ==
    (insights # <<>> /\ sentiments # <<>>) =>
        LET pos   == LabelCount(POSITIVE)
            neg   == LabelCount(NEGATIVE)
            neu   == LabelCount(NEUTRAL)
            total == Len(sentiments)
            high  == Cardinality({i \in DOMAIN sentiments :
                                     sentiments[i].confidence > 7000})
            remediation ==
                IF neg > pos
                THEN <<Rec("Address negative feedback urgently to prevent reputation damage"),
                       Rec("Implement customer satisfaction improvement initiatives")>>
                ELSE <<>>
            amplification ==
                IF 10 * pos > 6 * total
                THEN <<Rec("Leverage positive sentiment for marketing campaigns"),
                       Rec("Identify and amplify positive influencer voices")>>
                ELSE <<>>
            engagement ==
                IF 10 * neu > 4 * total
                THEN <<Rec("Engage neutral influencers with targeted content"),
                       Rec("Provide more compelling value propositions")>>
                ELSE <<>>
            sufficiency ==
                IF 2 * high < total
                THEN <<Rec("Consider gathering more data for better analysis confidence")>>
                ELSE <<>>
        IN  \E average \in {<<>>, <<Critical>>, <<Maintain>>} :
                insights[1].recommendations =
                    remediation \o amplification \o engagement
                        \o average \o sufficiency

\* C9 witness: a non-empty result list for which no condition fires and
\* the recommendation list is empty.
C9_Witness ==
    /\ insights # <<>>
    /\ sentiments # <<>>
    /\ insights[1].recommendations = <<>>

\* C10: the process-wide configuration is never modified, and any two
\* results for the same statement text (whatever their request, their
\* position and the statements around them) agree on label, confidence
\* and keywords_found; they agree on the score too unless the label is
\* NEUTRAL.
C10_DependsOnTextOnly ==
    /\ config = AnalyzerConfig
    /\ \A r \in Produced : \A h \in Produced \cup history :
           r.statement = h.statement =>
               /\ r.sentiment = h.sentiment
               /\ r.confidence = h.confidence
               /\ r.keywords_found = h.keywords_found
               /\ r.sentiment # NEUTRAL => r.score = h.score

\* C10 witness: the current request produced, at the second position of
\* its list, a NEUTRAL result whose score differs from the one an earlier
\* request got for the same text.
C10_Witness ==
    /\ calls # <<>>
    /\ Len(calls[1]) = 2
    /\ calls[1][1].statement # calls[1][2].statement
    /\ calls[1][2].sentiment = NEUTRAL
    /\ \E h \in history :
           /\ h.statement = calls[1][2].statement
           /\ h.score # calls[1][2].score
           /\ h \notin Produced

====
